---- MODULE Spec2Model ----
(***************************************************************************)
(* A model of the AI resume builder: the Streamlit form session of        *)
(* Ai_resume.py, the pure spell-check helper check_spelling (services.py  *)
(* and Ai_resume.py), and the FastAPI request service of app.py with the  *)
(* generate_text / create_pdf helpers of services.py.                     *)
(*                                                                         *)
(* Texts are sequences of one-character strings.  The external spelling   *)
(* corrector (TextBlob.correct), the hosted generation endpoint and the   *)
(* PDF library are environment: their answers are chosen                  *)
(* nondeterministically from bounded sets.                               *)
(***************************************************************************)
EXTENDS Integers, Sequences, FiniteSets, TLC

(***************************************************************************)
(* Bounds of the model.                                                    *)
(***************************************************************************)
\* longest text given to check_spelling in the pure-function specification
MaxTextLen == 3
\* most entries the education section grows to
MaxEducation == 3
\* most entries the experience section grows to
MaxExperience == 2
\* most widgets typed into (the summary and skills text areas, the widgets
\* of the entries) holding something other than their default at a time
MaxFilledWidgets == 1

(***************************************************************************)
(* Texts and tokenisation.                                                 *)
(***************************************************************************)
Whitespace == {" "}
Letters == {"a", "b"}
Chars == Whitespace \cup Letters

RECURSIVE TextsUpTo(_)
TextsUpTo(n) ==
    IF n = 0 THEN {<<>>}
    ELSE LET shorter == TextsUpTo(n - 1)
         IN  shorter \cup {Append(t, c) : t \in {s \in shorter : Len(s) = n - 1}, c \in Chars}

Texts == TextsUpTo(MaxTextLen)

\* str.lstrip(): drop leading whitespace
RECURSIVE LStrip(_)
LStrip(t) ==
    IF t = <<>> THEN <<>>
    ELSE IF Head(t) \in Whitespace THEN LStrip(Tail(t)) ELSE t

\* str.rstrip(): drop trailing whitespace
RECURSIVE RStrip(_)
RStrip(t) ==
    IF t = <<>> THEN <<>>
    ELSE IF t[Len(t)] \in Whitespace THEN RStrip(SubSeq(t, 1, Len(t) - 1)) ELSE t

\* str.strip()
Strip(t) == RStrip(LStrip(t))

\* Python truthiness of a str
Truthy(t) == t # <<>>

\* TextBlob(text).words for texts over letters and whitespace: the maximal
\* runs of non-whitespace characters, in order (cur is the run being read).
RECURSIVE WordsFrom(_, _)
WordsFrom(t, cur) ==
    IF t = <<>> THEN (IF cur = <<>> THEN <<>> ELSE <<cur>>)
    ELSE IF Head(t) \in Whitespace
         THEN (IF cur = <<>> THEN <<>> ELSE <<cur>>) \o WordsFrom(Tail(t), <<>>)
         ELSE WordsFrom(Tail(t), Append(cur, Head(t)))

Words(t) == WordsFrom(t, <<>>)

(***************************************************************************)
(* check_spelling.                                                         *)
(***************************************************************************)
\* a comprehension that reports the corrected token instead of the original
RECURSIVE MisspelledFromReportsCorrected(_, _, _)
MisspelledFromReportsCorrected(ow, cw, i) ==
    IF i >= Len(ow) THEN <<>>
    ELSE (IF i < Len(cw) /\ ow[i + 1] # cw[i + 1] THEN <<cw[i + 1]>> ELSE <<>>)
         \o MisspelledFromReportsCorrected(ow, cw, i + 1)

\* The list comprehension of check_spelling, read from 0-based position i on:
\*   [str(word) for i, word in enumerate(blob.words)
\*    if i < len(TextBlob(corrected).words) and word != TextBlob(corrected).words[i]]
RECURSIVE MisspelledFrom(_, _, _)
MisspelledFrom(ow, cw, i) ==
    IF i >= Len(ow) THEN <<>>
    ELSE (IF i < Len(cw) /\ ow[i + 1] # cw[i + 1] THEN <<ow[i + 1]>> ELSE <<>>)
         \o MisspelledFrom(ow, cw, i + 1)

Misspelled(text, corrected) == MisspelledFrom(Words(text), Words(corrected), 0)

\* a fast path that forgets strip(): `if not text`
IsBlankWithoutStrip(text) == ~Truthy(text)

\* `if not text.strip()`: the fast path that skips the corrector
IsBlank(text) == ~Truthy(Strip(text))

\* An answer of the external corrector: a corrected text, or an exception.
CorrectorAnswers(outs) == [ok : {TRUE}, text : outs] \cup [ok : {FALSE}, text : {<<>>}]

\* services.check_spelling: (corrected, misspelled), HTTP 500 when the library raises
ServiceCheckSpelling(text, ans) ==
    IF IsBlank(text)
    THEN [status |-> 200, corrected |-> text, misspelled |-> <<>>, corrector_calls |-> 0]
    ELSE IF ans.ok
         THEN [status |-> 200, corrected |-> ans.text,
               misspelled |-> Misspelled(text, ans.text), corrector_calls |-> 1]
         ELSE [status |-> 500, corrected |-> <<>>, misspelled |-> <<>>, corrector_calls |-> 1]

\* Ai_resume.check_spelling: (corrected, misspelled); a library failure is shown
\* with st.error and answered with (text, [])
InteractiveCheckSpelling(text, ans) ==
    IF IsBlank(text)
    THEN [status |-> 200, corrected |-> text, misspelled |-> <<>>, corrector_calls |-> 0]
    ELSE IF ans.ok
         THEN [status |-> 200, corrected |-> ans.text,
               misspelled |-> Misspelled(text, ans.text), corrector_calls |-> 1]
         ELSE [status |-> 500, corrected |-> text, misspelled |-> <<>>, corrector_calls |-> 1]

CheckSpellingOf(variant, text, ans) ==
    IF variant = "service" THEN ServiceCheckSpelling(text, ans)
    ELSE InteractiveCheckSpelling(text, ans)

(***************************************************************************)
(* State.                                                                  *)
(***************************************************************************)
VARIABLES
    \* -- one check_spelling call and a second call on its own result
    sc,
    \* -- the Streamlit session (st.session_state and what the page shows)
    name, email, summary, technical_skills,
    summary_widget, technical_skills_widget,
    education_entries, experience_entries,
    spelling_errors,
    remove_edu_shown, remove_exp_shown,
    \* -- the entry widgets on the page (the value= each was created with) and
    \* the way the Streamlit build in use tells widgets apart
    \* and what the experience widgets on the page hold in the browser
    education_drawn, experience_drawn, experience_held, widget_identity,
    ui,
    \* -- the request service: configuration, last request and its outcome
    cfg, req, outbound, resp, render_calls

spellVars == <<sc>>
sessionVars == <<name, email, summary, technical_skills, summary_widget,
                 technical_skills_widget, education_entries, experience_entries,
                 spelling_errors, remove_edu_shown, remove_exp_shown,
                 education_drawn, experience_drawn, experience_held,
                 widget_identity, ui>>
apiVars == <<cfg, req, outbound, resp, render_calls>>
vars == <<sc, name, email, summary, technical_skills, summary_widget,
          technical_skills_widget, education_entries, experience_entries,
          spelling_errors, remove_edu_shown, remove_exp_shown,
          education_drawn, experience_drawn, experience_held, widget_identity, ui,
          cfg, req, outbound, resp, render_calls>>

(***************************************************************************)
(* The pure-function specification of check_spelling.                      *)
(***************************************************************************)
NoResult == [status |-> 0, corrected |-> <<>>, misspelled |-> <<>>, corrector_calls |-> 0]

SpellIdle == [step |-> 0, variant |-> "service", text |-> <<>>,
              first |-> NoResult, second |-> NoResult]

\* POST /spell-check: services.check_spelling(input.text)
ServiceSpellCheck ==
    /\ sc.step = 0
    /\ \E ans \in CorrectorAnswers(Texts) :
         sc' = [sc EXCEPT !.step = 1, !.variant = "service",
                          !.first = ServiceCheckSpelling(sc.text, ans)]
    /\ UNCHANGED <<sessionVars, apiVars>>

\* Ai_resume.check_spelling(text) called on one text
InteractiveSpellCheck ==
    /\ sc.step = 0
    /\ \E ans \in CorrectorAnswers(Texts) :
         sc' = [sc EXCEPT !.step = 1, !.variant = "interactive",
                          !.first = InteractiveCheckSpelling(sc.text, ans)]
    /\ UNCHANGED <<sessionVars, apiVars>>

\* the same variant called again on the corrected text it returned; on a
\* text it produced itself the corrector changes nothing, or fails
CheckSpellingAgain ==
    /\ sc.step = 1
    /\ sc.first.status = 200 \/ sc.variant = "interactive"
    /\ \E ans \in CorrectorAnswers({sc.first.corrected}) :
         sc' = [sc EXCEPT !.step = 2,
                          !.second = CheckSpellingOf(sc.variant, sc.first.corrected, ans)]
    /\ UNCHANGED <<sessionVars, apiVars>>

(***************************************************************************)
(* The interactive form session (Ai_resume.py).  Every action is one run   *)
(* of the Streamlit script, top to bottom, started by one user event or by *)
(* the st.rerun() of the run before.                                       *)
(***************************************************************************)
\* what the user types into a text widget of the form
Typed == {<<>>, <<"a">>}
\* what the user sets the Duration (Months) number widget to
MonthsTyped == {0, 1}
\* what the corrector answers in the session
SessionCorrections == {<<"a">>, <<"b">>}

DefaultEducation ==
    [degree |-> <<>>, school |-> <<>>, year |-> <<>>, achievements |-> <<>>, gpa |-> <<>>]

DefaultExperience ==
    [role |-> <<>>, company |-> <<>>, years |-> <<>>, months |-> 0,
     description |-> <<>>, achievements |-> <<>>, location |-> <<>>]

\* the widgets of one education entry (lines 277-310) and of one experience
\* entry (lines 329-376), named by the entry field each is assigned to
EducationFields == {"degree", "school", "year", "gpa", "achievements"}
ExperienceFields == {"role", "company", "years", "months", "location",
                     "description", "achievements"}

\* what the user can put into the widget of field f
TypedInto(f) == IF f = "months" THEN MonthsTyped ELSE Typed

\* the repository pins no Streamlit version, and builds differ in how they
\* tell one widget from another between two runs: by all the arguments of
\* the call, value= included ("element"), or by key= alone ("key")
WidgetIdentities == {"element", "key"}

\* the user event of a run on the widget of field f of entry i (1-based
\* here), or none
NoEdit == [given |-> FALSE, i |-> 0, f |-> "", t |-> <<>>]
EditOf(i, f, t) == [given |-> TRUE, i |-> i, f |-> f, t |-> t]

\* keys of st.session_state.spelling_errors: 'summary', 'skills', f'exp_desc_{i}'
SummaryKey == <<"summary", 0>>
SkillsKey == <<"skills", 0>>
ExpDescKey(i) == <<"exp_desc", i>>

NoKey == <<"none", 0>>
EmptyDict == [k \in {} |-> NoResult]

\* the last run of the script: the user event that started it, the message
\* it showed, the correction it applied (if any), the fields a spell check
\* passed to check_spelling, those whose check raised inside the library and
\* those whose check reported misspelled words, and the record it handed to
\* create_pdf (if any)
Ran(event) == [event |-> event, outcome |-> "none", field |-> NoKey, text |-> <<>>,
               checked |-> {}, failed |-> {}, found |-> {},
               create_pdf_called |-> FALSE, pdf_name |-> <<>>, pdf_summary |-> <<>>]

Quiet == Ran("none")

\* `len(entries) > 1 and st.button("Remove Last ... Entry")`: the button is
\* drawn only when the guard before it holds
RemoveButtonDrawn(entries) == Len(entries) > 1

\* what st.text_input / st.text_area / st.number_input(value=arg, key=...)
\* returns in a run: what the browser's widget holds when the call is the
\* widget the page already shows (same key, and under "element" identity
\* the same value= as the call that drew it), else a fresh widget's arg
WidgetReturns(identity, on_page, drawn_arg, held, arg) ==
    IF on_page /\ (identity = "key" \/ drawn_arg = arg) THEN held ELSE arg

\* the loop over a section (lines 275-310, 327-376): every field of every
\* entry is assigned what its widget returns.  `drawn` are the value=
\* arguments of the entry widgets on the page, `held` what those widgets
\* hold in the browser before the user event `edit` of this run.  A widget
\* the user did not touch returns its value= wherever it holds just that,
\* so the loop leaves entries alone whose widgets hold what they hold
EntriesLoop(identity, entries, drawn, held, edit) ==
    LET returned(i, f, in_browser) ==
            WidgetReturns(identity, i <= Len(drawn),
                          IF i <= Len(drawn) THEN drawn[i][f] ELSE entries[i][f],
                          in_browser, entries[i][f])
        untouched ==
            IF held = entries
            THEN entries
            ELSE [i \in 1..Len(entries) |->
                    [f \in DOMAIN entries[i] |->
                        returned(i, f, IF i <= Len(held) THEN held[i][f]
                                       ELSE entries[i][f])]]
    IN  IF edit.given /\ edit.i <= Len(entries)
        THEN [untouched EXCEPT ![edit.i][edit.f] = returned(edit.i, edit.f, edit.t)]
        ELSE untouched

\* the session once the first run of the script has drawn the page
SessionStart ==
    /\ name = <<>> /\ email = <<>>
    /\ summary = <<>> /\ summary_widget = <<>>
    /\ technical_skills = <<>> /\ technical_skills_widget = <<>>
    /\ education_entries = <<DefaultEducation>>
    /\ experience_entries = <<DefaultExperience>>
    /\ spelling_errors = EmptyDict
    /\ remove_edu_shown = FALSE /\ remove_exp_shown = FALSE
    /\ education_drawn = <<DefaultEducation>>
    /\ experience_drawn = <<DefaultExperience>>
    /\ experience_held = <<DefaultExperience>>
    /\ ui = Quiet

\* a session on either kind of Streamlit build
SessionInit ==
    /\ SessionStart
    /\ widget_identity \in WidgetIdentities

\* the education loop of a run (lines 275-310).  Nothing but this loop
\* assigns a field of an education entry, so the widgets on the page hold
\* what the entries hold
LoopedEducation(edit) ==
    EntriesLoop(widget_identity, education_entries, education_drawn,
                education_entries, edit)

\* the experience loop of a run (lines 327-376)
LoopedExperience(edit) ==
    EntriesLoop(widget_identity, experience_entries, experience_drawn,
                experience_held, edit)

\* the entry widgets a run draws: one set per entry the section holds when
\* its loop starts, each created with value= the entry's field (lines
\* 279, 285, ..., 372); an entry appended later in the run has none yet
DrawEntries ==
    /\ education_drawn' = education_entries
    /\ experience_drawn' = experience_entries
    /\ widget_identity' = widget_identity

\* lines 238-256, the entry widgets and the two remove-button guards (lines
\* 321, 389) of a run that pops nothing and assigns no entry after its
\* loops: the session copies of the sidebar widgets are overwritten with
\* what the widgets hold, the experience widgets hold what the loop has
\* assigned (the entries of the run's end, less an appended one), and each
\* remove button is drawn when its section, after a possible append, has
\* more than one entry
PlainRun ==
    /\ summary' = summary_widget'
    /\ technical_skills' = technical_skills_widget'
    /\ DrawEntries
    /\ experience_held' = SubSeq(experience_entries', 1, Len(experience_entries))
    /\ remove_edu_shown' = RemoveButtonDrawn(education_entries')
    /\ remove_exp_shown' = RemoveButtonDrawn(experience_entries')

\* A run starts when the user changes what a widget holds or clicks a
\* button: leaving a widget as it is starts none.

\* the user changes a widget the model keeps no value of (Phone, LinkedIn
\* URL, ..., Soft Skills, Projects, ...: lines 240-244, 257-260, 393-417)
EditOther ==
    /\ experience_entries' = LoopedExperience(NoEdit)
    /\ UNCHANGED <<name, email, summary_widget, technical_skills_widget,
                   education_entries, spelling_errors>>
    /\ PlainRun
    /\ ui' = Ran("edit")
    /\ UNCHANGED <<spellVars, apiVars>>

\* the user edits the Full Name widget
EditName ==
    /\ \E t \in Typed \ {name} : name' = t
    /\ experience_entries' = LoopedExperience(NoEdit)
    /\ UNCHANGED <<email, summary_widget, technical_skills_widget,
                   education_entries, spelling_errors>>
    /\ PlainRun
    /\ ui' = Ran("edit")
    /\ UNCHANGED <<spellVars, apiVars>>

\* the user edits the Email widget
EditEmail ==
    /\ \E t \in Typed \ {email} : email' = t
    /\ experience_entries' = LoopedExperience(NoEdit)
    /\ UNCHANGED <<name, summary_widget, technical_skills_widget,
                   education_entries, spelling_errors>>
    /\ PlainRun
    /\ ui' = Ran("edit")
    /\ UNCHANGED <<spellVars, apiVars>>

\* the user edits the Professional Summary text area
EditSummary ==
    /\ \E t \in Typed \ {summary_widget} : summary_widget' = t
    /\ experience_entries' = LoopedExperience(NoEdit)
    /\ UNCHANGED <<name, email, technical_skills_widget,
                   education_entries, spelling_errors>>
    /\ PlainRun
    /\ ui' = Ran("edit")
    /\ UNCHANGED <<spellVars, apiVars>>

\* the user edits the Technical Skills text area
EditTechnicalSkills ==
    /\ \E t \in Typed \ {technical_skills_widget} : technical_skills_widget' = t
    /\ experience_entries' = LoopedExperience(NoEdit)
    /\ UNCHANGED <<name, email, summary_widget,
                   education_entries, spelling_errors>>
    /\ PlainRun
    /\ ui' = Ran("edit")
    /\ UNCHANGED <<spellVars, apiVars>>

\* the user edits one of the education widgets on the page (entry i, 1-based
\* here, field f); the loop assigns every field what its widget returns.
\* (The widgets of an entry popped by the last run are still on the page.)
EditEducation ==
    /\ \E i \in 1..Len(education_drawn), f \in EducationFields :
         \E t \in TypedInto(f) :
            /\ i <= Len(education_entries) => t # education_entries[i][f]
            /\ education_entries' = LoopedEducation(EditOf(i, f, t))
    /\ experience_entries' = LoopedExperience(NoEdit)
    /\ UNCHANGED <<name, email, summary_widget, technical_skills_widget,
                   spelling_errors>>
    /\ PlainRun
    /\ ui' = Ran("edit")
    /\ UNCHANGED <<spellVars, apiVars>>

\* the user edits one of the experience widgets on the page (entry i, 1-based
\* here, field f); the loop assigns every field what its widget returns
EditExperience ==
    /\ \E i \in 1..Len(experience_held), f \in ExperienceFields :
         \E t \in TypedInto(f) \ {experience_held[i][f]} :
            experience_entries' = LoopedExperience(EditOf(i, f, t))
    /\ UNCHANGED <<name, email, summary_widget, technical_skills_widget,
                   education_entries, spelling_errors>>
    /\ PlainRun
    /\ ui' = Ran("edit")
    /\ UNCHANGED <<spellVars, apiVars>>

\* list.pop(): the list without its last element
Pop(entries) == SubSeq(entries, 1, Len(entries) - 1)

\* lines 321-322 / 389-390, given that the user clicked the remove button the
\* page shows: `len(entries) > 1 and st.button(...)` pops only when the guard
\* holds (the button is not even evaluated otherwise)
RemoveLast(entries) == IF Len(entries) > 1 THEN Pop(entries) ELSE entries

\* click on "Add Another Education Entry" (lines 312-319)
AddEducation ==
    /\ Len(education_entries) < MaxEducation
    /\ education_entries' = Append(education_entries, DefaultEducation)
    /\ experience_entries' = LoopedExperience(NoEdit)
    /\ UNCHANGED <<name, email, summary_widget, technical_skills_widget,
                   spelling_errors>>
    /\ PlainRun
    /\ ui' = Ran("add_education")
    /\ UNCHANGED <<spellVars, apiVars>>

\* click on the "Remove Last Education Entry" button the page shows (lines 321-322)
RemoveLastEducation ==
    /\ remove_edu_shown
    /\ education_entries' = RemoveLast(education_entries)
    /\ experience_entries' = LoopedExperience(NoEdit)
    /\ UNCHANGED <<name, email, summary_widget, technical_skills_widget,
                   spelling_errors>>
    /\ summary' = summary_widget
    /\ technical_skills' = technical_skills_widget
    /\ DrawEntries
    /\ experience_held' = LoopedExperience(NoEdit)
    /\ remove_edu_shown' = RemoveButtonDrawn(education_entries)
    /\ remove_exp_shown' = RemoveButtonDrawn(experience_entries)
    /\ ui' = Ran("remove_education")
    /\ UNCHANGED <<spellVars, apiVars>>

\* click on "Add Another Experience Entry" (lines 378-387)
AddExperience ==
    /\ Len(experience_entries) < MaxExperience
    /\ experience_entries' = Append(LoopedExperience(NoEdit), DefaultExperience)
    /\ UNCHANGED <<name, email, summary_widget, technical_skills_widget,
                   education_entries, spelling_errors>>
    /\ PlainRun
    /\ ui' = Ran("add_experience")
    /\ UNCHANGED <<spellVars, apiVars>>

\* click on the "Remove Last Experience Entry" button the page shows (lines 389-390)
RemoveLastExperience ==
    /\ remove_exp_shown
    /\ experience_entries' = RemoveLast(LoopedExperience(NoEdit))
    /\ UNCHANGED <<name, email, summary_widget, technical_skills_widget,
                   education_entries, spelling_errors>>
    /\ summary' = summary_widget
    /\ technical_skills' = technical_skills_widget
    /\ DrawEntries
    /\ experience_held' = LoopedExperience(NoEdit)
    /\ remove_edu_shown' = RemoveButtonDrawn(education_entries)
    /\ remove_exp_shown' = RemoveButtonDrawn(experience_entries)
    /\ ui' = Ran("remove_experience")
    /\ UNCHANGED <<spellVars, apiVars>>

\* the fields "Run Spell Check" passes to check_spelling (lines 189, 195, 201-202):
\* summary and technical skills when truthy, every truthy experience description
CheckedKeys ==
    (IF Truthy(summary) THEN {SummaryKey} ELSE {})
    \cup (IF Truthy(technical_skills) THEN {SkillsKey} ELSE {})
    \cup {ExpDescKey(i - 1) : i \in {j \in 1..Len(experience_entries) :
                                       Truthy(experience_entries[j].description)}}

\* the source text of a correctable field
FieldText(key) ==
    IF key = SummaryKey THEN summary
    ELSE IF key = SkillsKey THEN technical_skills
    ELSE experience_entries[key[2] + 1].description

\* the texts of the checked fields
CheckedTexts == {FieldText(k) : k \in CheckedKeys}

\* the dictionary built by lines 186-205: one (corrected, errors) entry for
\* every checked field whose check reported misspelled words; within one run
\* the corrector answers each text in one way
SpellingErrorsFound(answers) ==
    LET result(k) == InteractiveCheckSpelling(FieldText(k), answers[FieldText(k)])
        keys == {k \in CheckedKeys : result(k).misspelled # <<>>}
    IN  [k \in keys |-> [corrected |-> result(k).corrected, errors |-> result(k).misspelled]]

\* the checked fields whose check_spelling call ended in the except clause
\* (lines 76-78): st.error and (text, [])
SpellCheckFailures(answers) ==
    {k \in CheckedKeys :
        InteractiveCheckSpelling(FieldText(k), answers[FieldText(k)]).status = 500}

\* click on "Run Spell Check" (lines 184-211); the cache is replaced only
\* when the new dictionary is not empty (lines 207-211)
RunSpellCheck ==
    /\ \E answers \in [CheckedTexts -> CorrectorAnswers(SessionCorrections)] :
         LET found == SpellingErrorsFound(answers)
             ran == [Ran("spell_check") EXCEPT !.checked = CheckedKeys,
                                               !.failed = SpellCheckFailures(answers),
                                               !.found = DOMAIN found]
         IN  IF DOMAIN found # {}
             THEN /\ spelling_errors' = found
                  /\ ui' = [ran EXCEPT !.outcome = "spelling_errors_found"]
             ELSE /\ spelling_errors' = spelling_errors
                  /\ ui' = [ran EXCEPT !.outcome = "no_spelling_errors"]
    \* the sections are drawn after the check (lines 275-376)
    /\ experience_entries' = LoopedExperience(NoEdit)
    /\ UNCHANGED <<name, email, summary_widget, technical_skills_widget,
                   education_entries>>
    /\ PlainRun
    /\ UNCHANGED <<spellVars, apiVars>>

\* lines 442-448: the assignment "Apply corrections to {field}" makes, as the
\* session values right after it, `looped` being the experience entries the
\* loop of this run has left; an exp_desc index past the end of the list
\* raises IndexError (ok = FALSE) and assigns nothing
ApplyAssignment(field, corrected, looped) ==
    IF field = SummaryKey
    THEN [ok |-> TRUE, summary |-> corrected, technical_skills |-> technical_skills_widget,
          experience_entries |-> looped]
    ELSE IF field = SkillsKey
    THEN [ok |-> TRUE, summary |-> summary_widget, technical_skills |-> corrected,
          experience_entries |-> looped]
    ELSE IF field[2] + 1 <= Len(looped)
    THEN [ok |-> TRUE, summary |-> summary_widget, technical_skills |-> technical_skills_widget,
          experience_entries |-> [looped EXCEPT ![field[2] + 1].description = corrected]]
    ELSE [ok |-> FALSE, summary |-> summary_widget, technical_skills |-> technical_skills_widget,
          experience_entries |-> looped]

\* a run has ended in st.rerun() (line 450) and the run it asks for has not
\* started yet
RerunRequested == ui.outcome = "rerun_requested"

\* click on "Apply corrections to {field}" for a cached correction (lines
\* 441-450): the run assigns the corrected text, shows "Corrections
\* applied!" and ends in st.rerun(); the widgets on the page are those its
\* loops drew before the assignment.  A run that ends in st.rerun() leaves
\* on the page what the run before it drew and it did not draw again, so a
\* remove button of the page before stays until the next run is over; a
\* run that stops at the IndexError of line 448 leaves the buttons it drew.
\* Nothing in the script removes an entry of spelling_errors
ApplyCorrection ==
    /\ \E field \in DOMAIN spelling_errors :
         LET corrected == spelling_errors[field].corrected
             after == ApplyAssignment(field, corrected, LoopedExperience(NoEdit))
         IN  /\ summary' = after.summary
             /\ technical_skills' = after.technical_skills
             /\ experience_entries' = after.experience_entries
             /\ ui' = [Ran("apply") EXCEPT
                          !.outcome = IF after.ok THEN "rerun_requested" ELSE "index_error",
                          !.field = field, !.text = corrected]
             /\ remove_edu_shown' = (RemoveButtonDrawn(education_entries)
                                        \/ (after.ok /\ remove_edu_shown))
             /\ remove_exp_shown' = (RemoveButtonDrawn(experience_entries)
                                        \/ (after.ok /\ remove_exp_shown))
    /\ UNCHANGED <<name, email, summary_widget, technical_skills_widget,
                   education_entries, spelling_errors>>
    /\ DrawEntries
    /\ experience_held' = LoopedExperience(NoEdit)
    /\ UNCHANGED <<spellVars, apiVars>>

\* the run st.rerun() asked for, when no user event has come in since: the
\* script from the top, with the session values the assignment left.  Lines
\* 247 and 253 overwrite summary and technical_skills with what their
\* widgets hold (these widgets take no value= from the session), and the
\* experience loop assigns every field what its widget returns.  (A user
\* event that comes in first is served by that run: it is the action of the
\* event, taken while RerunRequested.)
Rerun ==
    /\ RerunRequested
    /\ experience_entries' = LoopedExperience(NoEdit)
    /\ UNCHANGED <<name, email, summary_widget, technical_skills_widget,
                   education_entries, spelling_errors>>
    /\ PlainRun
    /\ ui' = [ui EXCEPT !.outcome = "applied"]
    /\ UNCHANGED <<spellVars, apiVars>>

\* line 454: `not name or not email or not summary`
RequiredFieldMissing(n, e, s) == ~Truthy(n) \/ ~Truthy(e) \/ ~Truthy(s)

\* click on "Generate Professional Resume" (lines 453-490); create_pdf either
\* returns bytes or fails inside the PDF library
GenerateResume ==
    \* line 247 of this run has already copied the widget into the summary
    /\ IF RequiredFieldMissing(name, email, summary_widget)
       THEN ui' = [Ran("generate") EXCEPT !.outcome = "required_fields_error"]
       ELSE \E rendered \in BOOLEAN :
              ui' = [Ran("generate") EXCEPT
                         !.outcome = IF rendered THEN "resume_ready" ELSE "pdf_failed",
                         !.create_pdf_called = TRUE,
                         !.pdf_name = name, !.pdf_summary = summary_widget]
    /\ experience_entries' = LoopedExperience(NoEdit)
    /\ UNCHANGED <<name, email, summary_widget, technical_skills_widget,
                   education_entries, spelling_errors>>
    /\ PlainRun
    /\ UNCHANGED <<spellVars, apiVars>>

\* the number of entry widgets of a section that hold something other than
\* the default of their field
FilledWidgets(entries, default) ==
    Cardinality({c \in (1..Len(entries)) \X DOMAIN default :
                    entries[c[1]][c[2]] # default[c[2]]})

\* 1 for a text area that holds text, 0 for an empty one
FilledTextArea(text) == IF Truthy(text) THEN 1 ELSE 0

\* the sessions explored: at most MaxFilledWidgets of the widgets typed into
\* (the summary and skills text areas, the widgets of the entries) are
\* filled at a time
FewWidgetsFilled ==
    FilledTextArea(summary_widget) + FilledTextArea(technical_skills_widget)
        + FilledWidgets(education_entries, DefaultEducation)
        + FilledWidgets(experience_entries, DefaultExperience) <= MaxFilledWidgets

\* the two sections of the form and every run that writes an entry: the
\* edits, the add and remove buttons, and the spell check with the
\* corrections it offers, whose Apply button assigns to a description and
\* whose rerun redraws the entries. A run that types into one of the other
\* tracked widgets (name, email, summary, skills) does to the sections what
\* EditOther does.
FormNext ==
    \/ EditOther
    \/ EditEducation /\ FewWidgetsFilled'
    \/ EditExperience /\ FewWidgetsFilled'
    \/ AddEducation
    \/ RemoveLastEducation
    \/ AddExperience
    \/ RemoveLastExperience
    \/ RunSpellCheck
    \/ ApplyCorrection
    \/ Rerun

\* the required fields and the rendering of the resume, on a form whose
\* education section grows and shrinks
ResumeNext ==
    \/ EditOther
    \/ EditName
    \/ EditEmail
    \/ EditSummary
    \/ EditTechnicalSkills
    \/ AddEducation
    \/ RemoveLastEducation
    \/ GenerateResume

\* the actions that read or write the correctable fields (summary, skills,
\* the descriptions of the experience entries) and the correction cache. A
\* run started from the name, the email, the education section or the
\* generate button does to them what EditOther does.
CorrectionNext ==
    \/ EditOther
    \/ EditSummary /\ FewWidgetsFilled'
    \/ EditTechnicalSkills /\ FewWidgetsFilled'
    \/ EditExperience /\ FewWidgetsFilled'
    \/ AddExperience
    \/ RemoveLastExperience
    \/ RunSpellCheck
    \/ ApplyCorrection
    \/ Rerun

(***************************************************************************)
(* The request service (app.py, services.py) and the interactive           *)
(* generate_text (Ai_resume.py).  Every action handles one whole request.  *)
(* Temperatures are counted in tenths (7 is 0.7).                          *)
(***************************************************************************)
\* Optional[...] values of a request, and unset environment variables
None == [given |-> FALSE, value |-> 0]
Some(v) == [given |-> TRUE, value |-> v]

\* Python's `a or b` on an optional number: None and 0 are both falsy
PyOr(opt, dflt) == IF opt.given /\ opt.value # 0 THEN opt.value ELSE dflt

Min(a, b) == IF a <= b THEN a ELSE b

\* values of MAX_TEXT_LENGTH the environment may set; 500 is the built-in default
Ceilings == {100, 500}
\* max_length values a caller may send
RequestedLengths == {None} \cup {Some(v) : v \in {0 - 5, 0, 50, 501, 10000}}
\* temperature values a caller may send, in tenths
RequestedTemperatures == {None} \cup {Some(v) : v \in {0, 3, 10}}
\* DEFAULT_TEMPERATURE in the environment: unset, or "0.7"
DefaultTemperatures == {None, Some(7)}

Configs == [HF_API_KEY : BOOLEAN, MAX_TEXT_LENGTH : Ceilings,
            DEFAULT_TEMPERATURE : DefaultTemperatures]

Prompts == {<<"a">>}
GeneratedText == <<"b">>

\* what the generation endpoint does with one POST: the call fails in
\* transport (connection error, timeout), or a response arrives with a
\* status code, an optional estimated_time header and a JSON body that is a
\* list whose first element has a generated_text field ("text"), a list
\* whose first element lacks it ("no_field"), or no list at all ("no_list")
UpstreamAnswers ==
    [transport_ok : {FALSE}, status_code : {0}, estimated_time : {None}, body : {"no_list"}]
    \cup [transport_ok : {TRUE}, status_code : {200}, estimated_time : {None},
          body : {"text", "no_field", "no_list"}]
    \cup [transport_ok : {TRUE}, status_code : {404, 500}, estimated_time : {None},
          body : {"no_list"}]
    \cup [transport_ok : {TRUE}, status_code : {503}, estimated_time : {None, Some(20)},
          body : {"no_list"}]

\* a credential check that never fires
KeyMissingIgnored(c) == FALSE

\* `if not HF_API_KEY` (services.py line 40, Ai_resume.py line 82)
KeyMissing(c) == ~c.HF_API_KEY

\* a max_new_tokens without the ceiling
ServiceMaxNewTokensUncapped(max_length, ceiling) == PyOr(max_length, ceiling)

\* services.generate_text line 49
ServiceMaxNewTokens(max_length, ceiling) == Min(PyOr(max_length, ceiling), ceiling)

\* Ai_resume.generate_text lines 80 and 93: max_length defaults to 200
InteractiveMaxNewTokens(max_length, ceiling) ==
    Min(IF max_length.given THEN max_length.value ELSE 200, ceiling)

\* services.generate_text line 50: `temperature or float(os.getenv('DEFAULT_TEMPERATURE'))`;
\* float(None) raises TypeError (ok = FALSE)
ServiceTemperature(temperature, default) ==
    IF temperature.given /\ temperature.value # 0
    THEN [ok |-> TRUE, value |-> temperature.value]
    ELSE IF default.given THEN [ok |-> TRUE, value |-> default.value]
    ELSE [ok |-> FALSE, value |-> 0]

\* Ai_resume.generate_text lines 80 and 94: temperature defaults to 0.7
InteractiveTemperature(temperature) ==
    IF temperature.given THEN temperature.value ELSE 7

\* line 61: int(response.headers.get("estimated_time", 30))
WaitTime(answer) == IF answer.estimated_time.given THEN answer.estimated_time.value ELSE 30

NoOutcome == [raised |-> "none", status |-> 200, detail |-> "none", wait |-> 0,
              text |-> <<>>, outbound |-> <<>>]

\* the try body of services.generate_text (lines 40-65): what it returns or
\* which exception leaves it, and the outbound calls it made
ServiceTryBody(c, prompt, max_length, temperature, answer) ==
    LET temp == ServiceTemperature(temperature, c.DEFAULT_TEMPERATURE)
        sent == <<[max_new_tokens |-> ServiceMaxNewTokens(max_length, c.MAX_TEXT_LENGTH),
                   temperature |-> temp.value]>>
    IN  IF KeyMissing(c)
        THEN [NoOutcome EXCEPT !.raised = "ValueError", !.detail = "key_not_configured"]
        ELSE IF ~temp.ok
        THEN [NoOutcome EXCEPT !.raised = "TypeError", !.detail = "float_of_none"]
        ELSE IF ~answer.transport_ok
        THEN [NoOutcome EXCEPT !.raised = "RequestException", !.detail = "transport",
                               !.outbound = sent]
        ELSE IF answer.status_code = 503
        THEN [NoOutcome EXCEPT !.raised = "HTTPException", !.status = 503,
                               !.detail = "model_loading", !.wait = WaitTime(answer),
                               !.outbound = sent]
        ELSE IF answer.status_code >= 400
        THEN [NoOutcome EXCEPT !.raised = "RequestException", !.detail = "http_error",
                               !.outbound = sent]
        ELSE IF answer.body = "no_list"
        THEN [NoOutcome EXCEPT !.raised = "KeyError", !.detail = "bad_body",
                               !.outbound = sent]
        ELSE [NoOutcome EXCEPT !.text = IF answer.body = "text" THEN GeneratedText ELSE prompt,
                               !.outbound = sent]

\* the except clauses of services.generate_text (lines 67-70), tried in
\* order: RequestException becomes HTTPException(502); every other Exception,
\* the HTTPException raised at line 62 included, becomes HTTPException(500)
\* whose detail is str(e)
ServiceExcept(outcome) ==
    IF outcome.raised = "none" THEN outcome
    ELSE IF outcome.raised = "RequestException"
    THEN [outcome EXCEPT !.raised = "HTTPException", !.status = 502]
    ELSE [outcome EXCEPT !.raised = "HTTPException", !.status = 500]

ServiceGenerateText(c, prompt, max_length, temperature, answer) ==
    ServiceExcept(ServiceTryBody(c, prompt, max_length, temperature, answer))

\* Ai_resume.generate_text (lines 80-121): every failure is shown with
\* st.error / st.warning and answered with the empty string; status is 0
\* because this variant reports no HTTP status
InteractiveGenerateText(c, prompt, max_length, temperature, answer) ==
    LET sent == <<[max_new_tokens |-> InteractiveMaxNewTokens(max_length, c.MAX_TEXT_LENGTH),
                   temperature |-> InteractiveTemperature(temperature)]>>
        quiet == [NoOutcome EXCEPT !.status = 0]
    IN  IF KeyMissing(c)
        THEN [quiet EXCEPT !.detail = "key_not_configured"]
        ELSE IF ~answer.transport_ok
        THEN [quiet EXCEPT !.detail = "transport", !.outbound = sent]
        ELSE IF answer.status_code = 503
        THEN [quiet EXCEPT !.detail = "model_loading", !.wait = WaitTime(answer),
                           !.outbound = sent]
        ELSE IF answer.status_code >= 400
        THEN [quiet EXCEPT !.detail = "http_error", !.outbound = sent]
        ELSE [quiet EXCEPT !.text = IF answer.body = "text" THEN GeneratedText ELSE prompt,
                           !.outbound = sent]

NoAnswer == [transport_ok |-> FALSE, status_code |-> 0, estimated_time |-> None,
             body |-> "no_list"]

NoRequest == [endpoint |-> "none", text |-> <<>>, max_length |-> None, temperature |-> None,
              upstream |-> NoAnswer, name |-> <<>>, summary |-> <<>>, library_ok |-> TRUE]

NoResponse == [status |-> 0, detail |-> "none", wait |-> 0, text |-> <<>>, misspelled |-> <<>>]

\* texts sent to POST /spell-check and what the corrector answers there
ApiTexts == {<<>>, <<" ">>, <<"a">>}
ApiCorrections == {<<"a">>, <<"b">>}

\* POST /generate-text (app.py lines 31-38): generate_text(input.text,
\* input.max_length, input.temperature); an HTTPException it raises is the
\* response; req.upstream is the endpoint's answer to the outbound call, if
\* one was made
GenerateTextEndpoint ==
    /\ \E prompt \in Prompts, max_length \in RequestedLengths,
          temperature \in RequestedTemperatures, answer \in UpstreamAnswers :
         LET out == ServiceGenerateText(cfg, prompt, max_length, temperature, answer)
         IN  /\ req' = [NoRequest EXCEPT !.endpoint = "generate-text", !.text = prompt,
                                         !.max_length = max_length,
                                         !.temperature = temperature,
                                         !.upstream = IF out.outbound # <<>> THEN answer
                                                      ELSE NoAnswer]
             /\ outbound' = out.outbound
             /\ resp' = [NoResponse EXCEPT !.status = out.status, !.detail = out.detail,
                                           !.wait = out.wait, !.text = out.text]
    /\ render_calls' = <<>>
    /\ UNCHANGED <<cfg, spellVars, sessionVars>>

\* the Text Generator form of the sidebar (Ai_resume.py lines 213-234) and
\* any other call of the interactive generate_text
InteractiveGenerate ==
    /\ \E prompt \in Prompts, max_length \in RequestedLengths,
          temperature \in RequestedTemperatures, answer \in UpstreamAnswers :
         LET out == InteractiveGenerateText(cfg, prompt, max_length, temperature, answer)
         IN  /\ req' = [NoRequest EXCEPT !.endpoint = "interactive-generate", !.text = prompt,
                                         !.max_length = max_length,
                                         !.temperature = temperature,
                                         !.upstream = IF out.outbound # <<>> THEN answer
                                                      ELSE NoAnswer]
             /\ outbound' = out.outbound
             /\ resp' = [NoResponse EXCEPT !.status = out.status, !.detail = out.detail,
                                           !.wait = out.wait, !.text = out.text]
    /\ render_calls' = <<>>
    /\ UNCHANGED <<cfg, spellVars, sessionVars>>

\* POST /spell-check (app.py lines 22-29)
SpellCheckEndpoint ==
    /\ \E text \in ApiTexts, ans \in CorrectorAnswers(ApiCorrections) :
         LET out == ServiceCheckSpelling(text, ans)
         IN  /\ req' = [NoRequest EXCEPT !.endpoint = "spell-check", !.text = text,
                                         !.library_ok = (out.corrector_calls = 0 \/ ans.ok)]
             /\ resp' = [NoResponse EXCEPT !.status = out.status, !.text = out.corrected,
                                           !.misspelled = out.misspelled,
                                           !.detail = IF out.status = 200 THEN "none"
                                                      ELSE "spell_check_error"]
    /\ outbound' = <<>>
    /\ render_calls' = <<>>
    /\ UNCHANGED <<cfg, spellVars, sessionVars>>

\* POST /generate-resume (app.py lines 40-55): create_pdf is called with the
\* fields of the request as they are; it returns bytes or raises
\* HTTPException(500) when the PDF library fails
ResumeEndpoint ==
    /\ \E n \in Typed, s \in Typed, rendered \in BOOLEAN :
         /\ req' = [NoRequest EXCEPT !.endpoint = "generate-resume", !.name = n,
                                     !.summary = s, !.library_ok = rendered]
         /\ render_calls' = <<[name |-> n, summary |-> s]>>
         /\ resp' = [NoResponse EXCEPT !.status = IF rendered THEN 200 ELSE 500,
                                       !.detail = IF rendered THEN "none" ELSE "pdf_failed"]
    /\ outbound' = <<>>
    /\ UNCHANGED <<cfg, spellVars, sessionVars>>

ApiIdle ==
    /\ req = NoRequest /\ outbound = <<>> /\ resp = NoResponse /\ render_calls = <<>>

DefaultConfig == [HF_API_KEY |-> FALSE, MAX_TEXT_LENGTH |-> 500, DEFAULT_TEMPERATURE |-> None]

(***************************************************************************)
(* Specifications.                                                         *)
(***************************************************************************)
\* the form session
Init ==
    /\ SessionInit
    /\ sc = SpellIdle
    /\ cfg = DefaultConfig
    /\ ApiIdle

Next == FormNext

Spec == Init /\ [][Next]_vars

\* the form session seen from the required fields
SpecResume == Init /\ [][ResumeNext]_vars

\* the form session seen from the correction cache
SpecCorrection == Init /\ [][CorrectionNext]_vars

\* check_spelling as a function of its text and of the corrector's answer
SpellInit ==
    /\ SessionStart /\ widget_identity = "key"
    /\ \E t \in Texts : sc = [SpellIdle EXCEPT !.text = t]
    /\ cfg = DefaultConfig
    /\ ApiIdle

SpellNext ==
    \/ ServiceSpellCheck
    \/ InteractiveSpellCheck
    \/ CheckSpellingAgain

SpecSpell == SpellInit /\ [][SpellNext]_vars

\* the request service and the interactive generate_text, under every configuration
ApiInit ==
    /\ SessionStart /\ widget_identity = "key"
    /\ sc = SpellIdle
    /\ cfg \in Configs
    /\ ApiIdle

ApiNext ==
    \/ GenerateTextEndpoint
    \/ InteractiveGenerate
    \/ SpellCheckEndpoint
    \/ ResumeEndpoint

SpecApi == ApiInit /\ [][ApiNext]_vars

(***************************************************************************)
(* Properties.                                                             *)
(***************************************************************************)
\* the first min(old length, new length) entries are the same, in the same order
PrefixKept(old, new) ==
    LET m == Min(Len(old), Len(new))
    IN  SubSeq(new, 1, m) = SubSeq(old, 1, m)

AppendThenRemoveRestores ==
    [][/\ (AddEducation
             => /\ education_entries' = Append(education_entries, DefaultEducation)
                /\ experience_entries' = experience_entries)
       /\ (AddExperience
             => /\ experience_entries' = Append(experience_entries, DefaultExperience)
                /\ education_entries' = education_entries)
       /\ (RemoveLastEducation
             => /\ PrefixKept(education_entries, education_entries')
                /\ Len(education_entries') >= Len(education_entries) - 1
                /\ experience_entries' = experience_entries)
       /\ (RemoveLastExperience
             => /\ PrefixKept(experience_entries, experience_entries')
                /\ Len(experience_entries') >= Len(experience_entries) - 1
                /\ education_entries' = education_entries)
       /\ (RemoveLastEducation /\ ui.event = "add_education"
             => Append(education_entries', DefaultEducation) = education_entries)
       /\ (RemoveLastExperience /\ ui.event = "add_experience"
             => Append(experience_entries', DefaultExperience) = experience_entries)]_vars

\* C2 (as claimed): once "Apply corrections" and the rerun it starts are over,
\* the field holds the corrected text and the cache has no entry for it.
AppliedCorrectionOverwritesAndClears ==
    (ui.event = "apply" /\ ui.outcome = "applied")
        => /\ FieldText(ui.field) = ui.text
           /\ ui.field \notin DOMAIN spelling_errors

\* C6 (as claimed): create_pdf is never called on a record whose name or
\* summary is empty, from the form (where an empty email blocks it too) or
\* from POST /generate-resume.
RenderOnlyAfterValidation ==
    /\ ui.create_pdf_called
         => Truthy(ui.pdf_name) /\ Truthy(ui.pdf_summary) /\ Truthy(email)
    /\ \A i \in 1..Len(render_calls) :
         Truthy(render_calls[i].name) /\ Truthy(render_calls[i].summary)

IsGenerate == req.endpoint \in {"generate-text", "interactive-generate"}

\* the max_length a call falls back to when none is given: the ceiling in
\* the request service, 200 in the interactive variant
DefaultLength == IF req.endpoint = "generate-text" THEN cfg.MAX_TEXT_LENGTH ELSE 200

\* C3 (as claimed): every generate_text call that reaches the outbound
\* request sends max_new_tokens = min(requested, or the default when none
\* was requested, ceiling).
SentLengthIsMinOfRequestedAndCeiling ==
    (IsGenerate /\ outbound # <<>>)
        => outbound[1].max_new_tokens =
             Min(IF req.max_length.given THEN req.max_length.value ELSE DefaultLength,
                 cfg.MAX_TEXT_LENGTH)

\* C3 (amended): every generate_text call that reaches the outbound request
\* sends a max_new_tokens that never exceeds the ceiling: it is
\* min(requested, ceiling), with the default taken for an absent max_length
\* and, in the request service, also for a requested 0.
SentLengthNeverExceedsCeiling ==
    (IsGenerate /\ outbound # <<>>)
        => LET asked == req.max_length
               zero_is_absent == req.endpoint = "generate-text"
               effective == IF asked.given /\ ~(zero_is_absent /\ asked.value = 0)
                            THEN asked.value ELSE DefaultLength
           IN  /\ outbound[1].max_new_tokens = Min(effective, cfg.MAX_TEXT_LENGTH)
               /\ outbound[1].max_new_tokens <= cfg.MAX_TEXT_LENGTH

\* C3 witness: the request service was asked for 10000 under a ceiling of 500
\* and sent 500
TenThousandSentAsFiveHundred ==
    /\ req.endpoint = "generate-text"
    /\ req.max_length = Some(10000)
    /\ cfg.MAX_TEXT_LENGTH = 500
    /\ outbound # <<>>
    /\ outbound[1].max_new_tokens = 500

\* C4 (as claimed): an upstream 503 with estimated time N makes the request
\* service's generate call exactly one outbound call and answer 503 with a
\* retry-after-N message.
NotReadyAnsweredWith503 ==
    (req.endpoint = "generate-text" /\ outbound # <<>>
       /\ req.upstream.transport_ok /\ req.upstream.status_code = 503)
        => /\ Len(outbound) = 1
           /\ resp.status = 503
           /\ resp.detail = "model_loading"
           /\ resp.wait = (IF req.upstream.estimated_time.given
                           THEN req.upstream.estimated_time.value ELSE 30)

\* C5 (as claimed): a failed generate call of the request service is reported
\* with 502 for a transport failure, 503 for not-ready and 500 for anything
\* else (missing credential and other non-success upstream statuses included).
FailureStatusFollowsKind ==
    (req.endpoint = "generate-text" /\ resp.status # 200)
        => resp.status =
             (IF outbound # <<>> /\ ~req.upstream.transport_ok THEN 502
              ELSE IF outbound # <<>> /\ req.upstream.status_code = 503 THEN 503
              ELSE 500)

\* C7: with no HF_API_KEY every generate_text call ends in the configuration
\* error without an outbound request, whatever its arguments, while
\* spell-check and rendering still answer when their libraries do.
NoKeyNoOutboundCall ==
    ~cfg.HF_API_KEY
        => /\ IsGenerate
                => /\ outbound = <<>>
                   /\ resp.detail = "key_not_configured"
                   /\ resp.text = <<>>
           /\ req.endpoint = "generate-text" => resp.status = 500
           /\ (req.endpoint = "spell-check" /\ req.library_ok) => resp.status = 200
           /\ (req.endpoint = "generate-resume" /\ req.library_ok)
                => resp.status = 200 /\ render_calls # <<>>

\* C7 witness: a generate request with explicit arguments was refused for
\* the missing key
GenerateRefusedWithoutKey ==
    /\ ~cfg.HF_API_KEY
    /\ req.endpoint = "generate-text"
    /\ req.max_length = Some(10000)
    /\ req.temperature = Some(3)
    /\ resp.detail = "key_not_configured"

AllWhitespace(t) == \A i \in 1..Len(t) : t[i] \in Whitespace

\* positions present in both tokenisations where the tokens differ
DiffPositions(ow, cw) == {i \in 1..Min(Len(ow), Len(cw)) : ow[i] # cw[i]}

\* res.misspelled is the original tokens at the differing positions, in
\* position order
ReportsDifferingOriginals(text, res) ==
    LET ow == Words(text)
        cw == Words(res.corrected)
        P == DiffPositions(ow, cw)
        m == res.misspelled
    IN  /\ Len(m) = Cardinality(P)
        /\ \A i \in P : m[Cardinality({j \in P : j <= i})] = ow[i]

\* C9: for a non-blank text and any answer of the corrector, check_spelling
\* reports exactly the original tokens at the positions below the shorter
\* token count where original and corrected token differ, in position order.
MisspelledAreDifferingOriginalTokens ==
    (sc.step >= 1 /\ ~AllWhitespace(sc.text) /\ sc.first.status = 200)
        => ReportsDifferingOriginals(sc.text, sc.first)

\* C9 witness: two original tokens against one corrected token: the first
\* is reported, the second has nothing to be compared with
TrailingTokenNotCompared ==
    /\ sc.step = 1
    /\ Len(Words(sc.text)) = 2
    /\ Len(Words(sc.first.corrected)) = 1
    /\ sc.first.misspelled = <<Words(sc.text)[1]>>

\* C10: for an empty or whitespace-only text check_spelling returns the text
\* unchanged with no misspelled word and without calling the corrector, and
\* a second call on its result returns the same.
BlankTextIsNoOp ==
    AllWhitespace(sc.text)
        => /\ sc.step >= 1
                => sc.first = [status |-> 200, corrected |-> sc.text,
                               misspelled |-> <<>>, corrector_calls |-> 0]
           /\ sc.step = 2 => sc.second = sc.first

\* C10 witness: a whitespace-only text went through both calls
WhitespaceCheckedTwice ==
    /\ sc.step = 2
    /\ sc.text = <<" ", " ">>
    /\ sc.second.corrected = sc.text

\* the fields a spell-check run is due to check: summary, technical skills
\* and every experience description that is not empty when the run starts
NonEmptyFields ==
    (IF summary # <<>> THEN {SummaryKey} ELSE {})
    \cup (IF technical_skills # <<>> THEN {SkillsKey} ELSE {})
    \cup {<<"exp_desc", i - 1>> : i \in {j \in 1..Len(experience_entries) :
                                           experience_entries[j].description # <<>>}}

\* C11 (as claimed): in a spell-check run where the corrector fails on a
\* field, every non-empty field is still checked, the failing field counts as
\* having no misspelled word, and afterwards the cache holds exactly the
\* entries of the fields whose check succeeded and found misspelled words.
FailedFieldDoesNotBlockOthers ==
    [][(RunSpellCheck /\ ui'.failed # {})
          => /\ ui'.checked = NonEmptyFields
             /\ ui'.failed \cap ui'.found = {}
             /\ DOMAIN spelling_errors' = ui'.found]_vars

\* C12 (as claimed): a generate_text call that reaches the outbound request
\* sends the temperature the caller requested, 0.0 included, and the
\* configured default when none was requested; a call of the request
\* service without a temperature reaches the outbound request also when
\* DEFAULT_TEMPERATURE is not set in the environment.
TemperatureSentAsRequested ==
    /\ (IsGenerate /\ outbound # <<>> /\ req.temperature.given)
         => outbound[1].temperature = req.temperature.value
    /\ (req.endpoint = "generate-text" /\ outbound # <<>> /\ ~req.temperature.given
          /\ cfg.DEFAULT_TEMPERATURE.given)
         => outbound[1].temperature = cfg.DEFAULT_TEMPERATURE.value
    /\ (req.endpoint = "generate-text" /\ cfg.HF_API_KEY /\ ~req.temperature.given
          /\ ~cfg.DEFAULT_TEMPERATURE.given)
         => outbound # <<>>

\* C13 (as claimed): every cached correction keyed exp_desc_i refers to an
\* existing experience entry (i < length of the experience sequence), and
\* applying a cached correction never fails.
CachedDescriptionKeysAreValid ==
    /\ \A k \in DOMAIN spelling_errors :
         k[1] = "exp_desc" => k[2] < Len(experience_entries)
    /\ ui.outcome # "index_error"

====
